---- MODULE Spec2Model ----
(***************************************************************************)
(* Model of the blog engine in src/app.py: the Entry and Category tables,  *)
(* the slug derivation of Entry.save, the category counter maintained by   *)
(* Entry.update_category and delete, the query views of Entry, and the     *)
(* request handlers create / edit / delete / login / logout.               *)
(*                                                                         *)
(* A request is a process that walks through the database statements of    *)
(* its handler.  No handler but Entry.save (wrapped in database.atomic())  *)
(* opens a transaction, so every other statement commits on its own and    *)
(* the statements of concurrent requests interleave.                       *)
(***************************************************************************)
EXTENDS Integers, Sequences, FiniteSets, Bags, TLC

VARIABLES
    entries,     \* table Entry: the set of its rows
    categories,  \* table Category: the set of its rows
    nextId,      \* next value of the primary key sequence of Entry
    logged_in,   \* session['logged_in']
    req,         \* the bag of requests in flight: handler, position, in-memory Entry
    resp,        \* the response to the request answered last: its status, and the
                 \* published flag of the entry it shows or redirects to
    ops,         \* number of requests received so far
    decs,        \* id -> number of decrements applied by delete requests of that entry
    dels,        \* id -> number of rows removed by delete requests of that entry
    incs,        \* number of increments applied by update_category
    t_in,        \* slug derivation on its own: the title
    t_out        \* slug derivation on its own: the derived slug, or Pending

vars == <<entries, categories, nextId, logged_in, req, resp, ops, decs, dels, incs, t_in, t_out>>

----------------------------------------------------------------------------
(* Bounds of the model *)

MaxEntries == 2
MaxOps == 3
MaxReq == 2
MaxTitleLen == 4
MaxQueryLen == 2

Ids == 1..MaxEntries

----------------------------------------------------------------------------
(* Characters and strings.  A string is a sequence of one-character strings. *)

UpperChars == {"A", "H"}
LowerChars == {"a", "h", "i"}
DigitChars == {"1"}
WordChars == UpperChars \cup LowerChars \cup DigitChars \cup {"_"}
OtherChars == {"-", " ", "!"}

\* str.lower() on one character
LowerChar(c) ==
    CASE c = "A" -> "a"
      [] c = "H" -> "h"
      [] OTHER -> c

\* str.lower()
Lower(s) == [i \in 1..Len(s) |-> LowerChar(s[i])]

\* the regular expression class \w
IsWord(c) == c \in WordChars

\* s without its leading characters matched by [^\w]
RECURSIVE DropNonWord(_)
DropNonWord(s) ==
    IF s = <<>> THEN <<>>
    ELSE IF IsWord(Head(s)) THEN s
    ELSE DropNonWord(Tail(s))

\* re.sub('[^\w]+', '-', s): every maximal run of non-word characters becomes one hyphen
RECURSIVE ReSub(_)
ReSub(s) ==
    IF s = <<>> THEN <<>>
    ELSE IF IsWord(Head(s)) THEN <<Head(s)>> \o ReSub(Tail(s))
    ELSE <<"-">> \o ReSub(DropNonWord(Tail(s)))

\* s.lstrip('-')
RECURSIVE LStrip(_)
LStrip(s) ==
    IF s # <<>> /\ Head(s) = "-" THEN LStrip(Tail(s)) ELSE s

\* s.rstrip('-')
RECURSIVE RStrip(_)
RStrip(s) ==
    IF s # <<>> /\ s[Len(s)] = "-" THEN RStrip(SubSeq(s, 1, Len(s) - 1)) ELSE s

\* s.strip('-')
Strip(s) == RStrip(LStrip(s))

\* slugify without the final strip('-')
slugifyUnstripped(title) == ReSub(Lower(title))

\* the slug of a title, as Entry.save derives it
slugify(title) == Strip(ReSub(Lower(title)))

----------------------------------------------------------------------------
(* Request inputs *)

\* form field 'title' ('' when the field is missing)
Titles == {<<>>, <<"H", "i">>, <<"h", "i", "!">>, <<"!">>}

\* form field 'content' ('' when the field is missing)
Contents == {<<>>, <<"a">>}

\* form field 'category' ('' when the field is missing)
CatNames == {"news", "tech"}
CatInputs == CatNames \cup {""}

\* the POSTed form of create and edit
Forms == [title : Titles, content : Contents, category : CatInputs, published : BOOLEAN]

\* the values a <slug> path segment is requested with (never empty: the route's
\* string converter matches at least one character)
SlugInputs == {slugify(t) : t \in Titles} \ {<<>>}

Users == {"admin", "mallory"}
Passwords == {"secret", "guess"}
ADMIN_USERNAME == "admin"
\* hashlib.sha512(password.encode()).hexdigest()
Sha512(p) == <<"sha512", p>>
ADMIN_HASH == Sha512("secret")

----------------------------------------------------------------------------
(* Tables and in-memory objects *)

\* A table is the set of its rows.  An Entry row, and an Entry object in memory, is
\* [id, title, slug, content, category, published]; a Category row is [name, number].

\* Entry(title='', content=''): no primary key (id 0), no slug
NewEntry == [id |-> 0, title |-> <<>>, slug |-> <<>>, content |-> <<>>,
             category |-> "", published |-> FALSE]

\* Entry.select().where(Entry.slug == slug)
BySlug(slug) == {e \in entries : e.slug = slug}

\* Category.select().where(Category.name == name)
ByName(name) == {c \in categories : c.name = name}

Pending == <<"pending">>

\* what a response is known by
Response(status, e) == [status |-> status, published |-> e.published]

Init ==
    /\ entries = {}
    /\ categories = {}
    /\ nextId = 1
    /\ logged_in = FALSE
    /\ req = EmptyBag
    /\ resp = Response("none", NewEntry)
    /\ ops = 0
    /\ decs = [i \in Ids |-> 0]
    /\ dels = [i \in Ids |-> 0]
    /\ incs = 0
    /\ t_in = <<>>
    /\ t_out = Pending

----------------------------------------------------------------------------
(* Entry.save, Entry.update_category and the statements of the handlers *)

\* Adjust writing d in place of number + d
AdjustOverwrites(cats, name, d) ==
    {IF c.name = name THEN [c EXCEPT !.number = d] ELSE c : c \in cats}

\* Adjust removing a Category row whose number comes to 0
AdjustDropsEmpty(cats, name, d) ==
    {c \in {IF c.name = name THEN [c EXCEPT !.number = @ + d] ELSE c : c \in cats} :
        c.name # name \/ c.number # 0}

\* Category.update({Category.number: Category.number + d}).where(Category.name == name)
Adjust(cats, name, d) ==
    {IF c.name = name THEN [c EXCEPT !.number = @ + d] ELSE c : c \in cats}

\* update_category counting drafts too
update_categoryAlways(e, cats) == Adjust(cats, e.category, 1)

\* Entry.update_category: one more for the category of a published entry
update_category(e, cats) ==
    IF e.published THEN Adjust(cats, e.category, 1) ELSE cats

\* WithSlug deriving the slug at every save
WithSlugAlways(e) == [e EXCEPT !.slug = slugify(e.title)]

\* Entry.save, first statement: the slug is derived only when the entry has none
WithSlug(e) ==
    IF e.slug = <<>> THEN [e EXCEPT !.slug = slugify(e.title)] ELSE e

\* SlugTaken without a unique index on Entry.slug
NoUniqueIndex(e) == FALSE

\* the unique index on Entry.slug: would writing row e break it?  (An INSERT writes a
\* row; an UPDATE writes one only if the row of that primary key still exists.)
SlugTaken(e) ==
    /\ e.id = 0 \/ \E x \in entries : x.id = e.id
    /\ \E x \in entries : x.id # e.id /\ x.slug = e.slug

\* the unique index on Category.name: would inserting name break it?
NameTaken(name) == ByName(name) # {}

\* _create_or_edit: the form's fields are assigned to the entry
FormAssign(e, form) ==
    [e EXCEPT !.title = form.title, !.content = form.content,
              !.category = form.category, !.published = form.published]

\* Complete without the test of the category
CompleteButCategory(e) == e.title # <<>> /\ e.content # <<>>

\* _create_or_edit: entry.title and entry.content and entry.category
Complete(e) == e.title # <<>> /\ e.content # <<>> /\ e.category # ""

\* the requests in flight
InFlight == BagToSet(req)

\* the number of create requests in flight
Creating == BagCardinality(req) - BagCardinality([x \in {y \in InFlight : y.op # "create"} |-> req[x]])

\* a request is received while fewer than MaxReq are being served
Receive ==
    /\ BagCardinality(req) < MaxReq
    /\ ops < MaxOps
    /\ ops' = ops + 1

\* the received request is answered at once
Answer(response) ==
    /\ resp' = response
    /\ UNCHANGED req

\* the received request goes on as x
Start(x) ==
    /\ req' = req (+) SetToBag({x})
    /\ UNCHANGED resp

\* request x is answered
Finish(x, response) ==
    /\ req' = req (-) SetToBag({x})
    /\ resp' = response

\* request x goes on as y
Goto(x, y) ==
    /\ req' = (req (-) SetToBag({x})) (+) SetToBag({y})
    /\ UNCHANGED resp

At(op, pc, e) == [op |-> op, pc |-> pc, e |-> e]

\* login_required: a request of a session that is not logged in is redirected to login
Redirected ==
    /\ Receive
    /\ ~logged_in
    /\ Answer(Response("login_redirect", NewEntry))
    /\ UNCHANGED <<entries, categories, nextId, logged_in, decs, dels, incs, t_in, t_out>>

\* AfterCategoryGet never creating the row
AfterCategoryGetSkips(e) == "save"

\* _create_or_edit: Category.get finds the row, or Category.create is to follow
AfterCategoryGet(e) ==
    IF ByName(e.category) # {} THEN "save" ELSE "cat_create"

\* POST /create/: _create_or_edit from the form's assignment to Category.get
CreatePost(form) ==
    /\ Receive
    /\ logged_in
    /\ nextId + Creating <= MaxEntries
    /\ LET e == FormAssign(NewEntry, form) IN
       IF ~Complete(e) THEN Answer(Response("invalid", e))
       ELSE Start(At("create", AfterCategoryGet(e), e))
    /\ UNCHANGED <<entries, categories, nextId, logged_in, decs, dels, incs, t_in, t_out>>

\* POST /<slug>/edit/: get_object_or_404(Entry, Entry.slug == slug)
EditLoad(slug) ==
    /\ Receive
    /\ logged_in
    /\ IF BySlug(slug) = {} THEN Answer(Response("not_found", NewEntry))
       ELSE \E e \in BySlug(slug) : Start(At("edit", "form", e))
    /\ UNCHANGED <<entries, categories, nextId, logged_in, decs, dels, incs, t_in, t_out>>

\* POST /<slug>/edit/: _create_or_edit from the form's assignment to Category.get
EditForm(x, form) ==
    /\ x.op = "edit"
    /\ x.pc = "form"
    /\ LET e == FormAssign(x.e, form) IN
       IF ~Complete(e) THEN Finish(x, Response("invalid", e))
       ELSE Goto(x, At("edit", AfterCategoryGet(e), e))
    /\ UNCHANGED <<entries, categories, nextId, logged_in, ops, decs, dels, incs, t_in, t_out>>

\* _create_or_edit: Category.create(name=..., number=0) after Category.get found no row
CategoryCreate(x) ==
    /\ x.pc = "cat_create"
    /\ IF NameTaken(x.e.category)
       THEN /\ Finish(x, Response("error", NewEntry))
            /\ UNCHANGED categories
       ELSE /\ categories' = categories \cup {[name |-> x.e.category, number |-> 0]}
            /\ Goto(x, At(x.op, "save", x.e))
    /\ UNCHANGED <<entries, nextId, logged_in, ops, decs, dels, incs, t_in, t_out>>

\* Save counting the category before the row is written, outside the transaction
SaveCountsFirst(x) ==
    /\ x.pc = "save"
    /\ LET e == WithSlug(x.e) IN
       /\ categories' = update_category(e, categories)
       /\ incs' = IF e.published THEN incs + 1 ELSE incs
       /\ IF SlugTaken(e)
          THEN /\ Finish(x, Response("duplicate", e))
               /\ UNCHANGED <<entries, nextId>>
          ELSE /\ IF e.id = 0
                  THEN /\ entries' = entries \cup {[e EXCEPT !.id = nextId]}
                       /\ nextId' = nextId + 1
                  ELSE /\ entries' = {IF y.id = e.id THEN e ELSE y : y \in entries}
                       /\ UNCHANGED nextId
               /\ Finish(x, Response("saved", e))
    /\ UNCHANGED <<logged_in, ops, decs, dels, t_in, t_out>>

\* _create_or_edit: with database.atomic(): entry.save()
Save(x) ==
    /\ x.pc = "save"
    /\ LET e == WithSlug(x.e) IN
       IF SlugTaken(e)
       THEN /\ Finish(x, Response("duplicate", e))
            /\ UNCHANGED <<entries, categories, nextId, incs>>
       ELSE /\ IF e.id = 0
               THEN /\ entries' = entries \cup {[e EXCEPT !.id = nextId]}
                    /\ nextId' = nextId + 1
               ELSE /\ entries' = {IF y.id = e.id THEN e ELSE y : y \in entries}
                    /\ UNCHANGED nextId
            /\ categories' = update_category(e, categories)
            /\ incs' = IF e.published THEN incs + 1 ELSE incs
            /\ Finish(x, Response("saved", e))
    /\ UNCHANGED <<logged_in, ops, decs, dels, t_in, t_out>>

\* DeleteLoad without login_required
DeleteLoadOpen(slug) ==
    /\ Receive
    /\ IF BySlug(slug) = {} THEN Answer(Response("error", NewEntry))
       ELSE \E e \in BySlug(slug) : Start(At("delete", "decrement", e))
    /\ UNCHANGED <<entries, categories, nextId, logged_in, decs, dels, incs, t_in, t_out>>

\* GET /<slug>/delete/: Entry.get(Entry.slug == slug)
DeleteLoad(slug) ==
    /\ Receive
    /\ logged_in
    /\ IF BySlug(slug) = {} THEN Answer(Response("error", NewEntry))
       ELSE \E e \in BySlug(slug) : Start(At("delete", "decrement", e))
    /\ UNCHANGED <<entries, categories, nextId, logged_in, decs, dels, incs, t_in, t_out>>

\* DeleteDecrement decrementing for a published entry only
DeleteDecrementPublished(x) ==
    /\ x.op = "delete"
    /\ x.pc = "decrement"
    /\ categories' = IF x.e.published THEN Adjust(categories, x.e.category, -1)
                     ELSE categories
    /\ decs' = [decs EXCEPT ![x.e.id] = @ + 1]
    /\ Goto(x, At("delete", "remove", x.e))
    /\ UNCHANGED <<entries, nextId, logged_in, ops, dels, incs, t_in, t_out>>

\* delete: Category.update({Category.number: Category.number-1})
DeleteDecrement(x) ==
    /\ x.op = "delete"
    /\ x.pc = "decrement"
    /\ categories' = Adjust(categories, x.e.category, -1)
    /\ decs' = [decs EXCEPT ![x.e.id] = @ + 1]
    /\ Goto(x, At("delete", "remove", x.e))
    /\ UNCHANGED <<entries, nextId, logged_in, ops, dels, incs, t_in, t_out>>

\* delete: entry.delete_instance()
DeleteRemove(x) ==
    /\ x.op = "delete"
    /\ x.pc = "remove"
    /\ entries' = {y \in entries : y.id # x.e.id}
    /\ dels' = [dels EXCEPT ![x.e.id] = @ + Cardinality(entries \ entries')]
    /\ Finish(x, Response("deleted", NewEntry))
    /\ UNCHANGED <<categories, nextId, logged_in, ops, decs, incs, t_in, t_out>>

\* a statement of request x fails in the storage layer (connection lost, deadlock): the
\* exception leaves the handler, and the transaction of Entry.save, if open, is rolled
\* back; what earlier statements of the request committed stays
StatementFails(x) ==
    /\ Finish(x, Response("failed", NewEntry))
    /\ UNCHANGED <<entries, categories, nextId, logged_in, ops, decs, dels, incs, t_in, t_out>>

\* login: the submitted credentials are the admin's
Authenticates(username, password) ==
    username = ADMIN_USERNAME /\ Sha512(password) = ADMIN_HASH

\* POST /login/
Login(username, password) ==
    /\ logged_in' = (logged_in \/ Authenticates(username, password))
    /\ UNCHANGED <<entries, categories, nextId, req, resp, ops, decs, dels, incs, t_in, t_out>>

\* POST /logout/: session.clear()
Logout ==
    /\ logged_in' = FALSE
    /\ UNCHANGED <<entries, categories, nextId, req, resp, ops, decs, dels, incs, t_in, t_out>>

Next ==
    \/ Redirected
    \/ \E form \in Forms : CreatePost(form)
    \/ \E slug \in SlugInputs : EditLoad(slug)
    \/ \E x \in InFlight, form \in Forms : EditForm(x, form)
    \/ \E x \in InFlight : CategoryCreate(x)
    \/ \E x \in InFlight : Save(x)
    \/ \E slug \in SlugInputs : DeleteLoad(slug)
    \/ \E x \in InFlight : DeleteDecrement(x)
    \/ \E x \in InFlight : DeleteRemove(x)
    \/ \E x \in InFlight : StatementFails(x)
    \/ \E u \in Users, p \in Passwords : Login(u, p)
    \/ Logout

Spec == Init /\ [][Next]_vars

----------------------------------------------------------------------------
(* The slug derivation on its own, over every title of up to MaxTitleLen characters *)

\* the strings over alphabet of at most n characters
StringsOver(alphabet, n) == UNION {[1..k -> alphabet] : k \in 0..n}

AllTitles == StringsOver(WordChars \cup OtherChars, MaxTitleLen)

InitSlug ==
    /\ entries = {}
    /\ categories = {}
    /\ nextId = 1
    /\ logged_in = FALSE
    /\ req = EmptyBag
    /\ resp = Response("none", NewEntry)
    /\ ops = 0
    /\ decs = [i \in Ids |-> 0]
    /\ dels = [i \in Ids |-> 0]
    /\ incs = 0
    /\ t_in \in AllTitles
    /\ t_out = Pending

\* Entry.save derives the slug of title t_in
DeriveSlug ==
    /\ t_out = Pending
    /\ t_out' = slugify(t_in)
    /\ UNCHANGED <<entries, categories, nextId, logged_in, req, resp, ops, decs, dels, incs, t_in>>

NextSlug == DeriveSlug

SlugSpec == InitSlug /\ [][NextSlug]_vars

----------------------------------------------------------------------------
(* The query views of Entry *)

\* Entry.public()
public == {e \in entries : e.published = TRUE}

\* Entry.drafts()
drafts == {e \in entries : e.published = FALSE}

\* Entry.only_category(cat)
only_category(cat) == {e \in entries : e.category = cat /\ e.published = TRUE}

IsSpace(c) == c = " "

\* the first word of s (s starts with no whitespace)
RECURSIVE FirstWord(_)
FirstWord(s) ==
    IF s = <<>> \/ IsSpace(Head(s)) THEN <<>>
    ELSE <<Head(s)>> \o FirstWord(Tail(s))

\* str.split(): the words of s between runs of whitespace
RECURSIVE Split(_)
Split(s) ==
    IF s = <<>> THEN <<>>
    ELSE IF IsSpace(Head(s)) THEN Split(Tail(s))
    ELSE LET w == FirstWord(s) IN <<w>> \o Split(SubSeq(s, Len(w) + 1, Len(s)))

\* ' '.join(words)
RECURSIVE JoinSpace(_)
JoinSpace(words) ==
    IF words = <<>> THEN <<>>
    ELSE IF Len(words) = 1 THEN words[1]
    ELSE words[1] \o <<" ">> \o JoinSpace(Tail(words))

\* Match(Entry.content, search): the storage engine's full-text match, taken as
\* every word of the search phrase being a word of the content
Match(content, phrase) ==
    LET asked == Split(phrase)
        found == Split(content)
    IN \A i \in 1..Len(asked) : \E j \in 1..Len(found) : found[j] = asked[i]

\* search without the published filter
searchAnyState(query) ==
    LET words == Split(query) IN
    IF words = <<>> THEN {}
    ELSE {e \in entries : Match(e.content, JoinSpace(words))}

\* search without the test for an empty word list
searchUnguarded(query) ==
    {e \in entries : Match(e.content, JoinSpace(Split(query))) /\ e.published = TRUE}

\* Entry.search(query)
search(query) ==
    LET words == Split(query) IN
    IF words = <<>> THEN {}
    ELSE {e \in entries : Match(e.content, JoinSpace(words)) /\ e.published = TRUE}

\* detail showing drafts to every session
detailOpen(slug) == {e \in entries : e.slug = slug}

\* detail: the entries get_object_or_404 finds for slug (none: not found)
detail(slug) ==
    LET query == IF logged_in THEN entries ELSE public
    IN {e \in query : e.slug = slug}

\* index: the entries listed for query string q
index(q) == IF q # <<>> THEN search(q) ELSE public

Queries == StringsOver({" ", "a"}, MaxQueryLen)

----------------------------------------------------------------------------
(* Properties *)

\* no request is in flight
Quiescent == req = EmptyBag

\* the number of persisted published entries of category name
PublishedIn(name) == Cardinality({e \in entries : e.published /\ e.category = name})

\* C1: after every operation (no request in flight, the last one not aborted by the
\* storage layer), each Category's number equals the number of persisted published
\* entries of that category.
NumberIsPublishedCount ==
    (Quiescent /\ resp.status # "failed")
        => \A c \in categories : c.number = PublishedIn(c.name)

\* C2: in every reachable state every Category's number is at least 0.
NumberNonNegative == \A c \in categories : c.number >= 0

\* C3: in every reachable state no two persisted entries have the same slug, and the
\* save of a new entry leaves every row that was persisted before it as it was.
SlugUniqueNoOverwrite ==
    /\ [](\A e \in entries, f \in entries : e.slug = f.slug => e = f)
    /\ [][\A x \in InFlight :
            (x.op = "create" /\ x.pc = "save" /\ req' = req (-) SetToBag({x}))
                => entries \subseteq entries']_vars

\* C3 witness: beside the entry persisted under slug hi, the save of a draft with the
\* same slug was refused
DraftDuplicateRefused ==
    /\ \E e \in entries : e.slug = <<"h", "i">>
    /\ Cardinality(entries) = 1
    /\ resp = [status |-> "duplicate", published |-> FALSE]

\* C4: the save of a new entry whose title slugifies to the slug of a persisted entry
\* is answered with the duplicate-title error (unless the storage layer itself fails)
\* and changes neither the entries nor any Category, also when the new entry is
\* published.
DuplicateSlugRollsBack ==
    [][\A x \in InFlight :
         (/\ x.pc = "save"
          /\ x.e.id = 0
          /\ \E y \in entries : y.slug = slugify(x.e.title)
          /\ req' = req (-) SetToBag({x})
          /\ resp'.status # "failed")
             => (/\ resp'.status = "duplicate"
                 /\ entries' = entries
                 /\ categories' = categories)]_vars

\* C4 witness: the save of a published new entry was refused as a duplicate
PublishedDuplicateRefused ==
    /\ resp = [status |-> "duplicate", published |-> TRUE]
    /\ entries # {}

\* C5: a row's slug is the slug of its title when the row is first written, and no
\* later step changes the slug of a persisted row.
SlugDerivedOnce ==
    [][/\ \A e \in entries, f \in entries' : f.id = e.id => f.slug = e.slug
       /\ \A f \in entries' :
            (\A e \in entries : e.id # f.id) => f.slug = slugify(f.title)]_vars

\* C5 witness: an entry was edited to a title with another slug and kept its slug
TitleChangedSlugKept ==
    \E e \in entries : e.slug = <<"h", "i">> /\ e.title = <<"!">>

\* C6: no entry with an empty slug is ever persisted.
NoEmptySlugPersisted == \A e \in entries : e.slug # <<>>

\* C7: for every entry, the delete requests for it decrement its category at most
\* once and remove at most one row.
DeleteAtMostOnce == \A i \in Ids : decs[i] <= 1 /\ dels[i] <= 1

\* C8: public, only_category and search hold published entries only (only_category
\* those of its category only), and drafts holds exactly the unpublished entries.
ViewsHideDrafts ==
    /\ \A e \in public : e \in entries /\ e.published
    /\ \A c \in CatNames : \A e \in only_category(c) :
          e \in entries /\ e.published /\ e.category = c
    /\ \A q \in Queries : \A e \in search(q) : e \in entries /\ e.published
    /\ \A e \in entries : (e \in drafts) <=> ~e.published
    /\ drafts \subseteq entries

\* C8 witness: a draft whose content matches a query is persisted beside a published
\* entry, and the search for that query yields the published entry alone
DraftMatchesQuery ==
    \E d \in entries, p \in entries :
        /\ ~d.published
        /\ Match(d.content, <<"a">>)
        /\ p.published
        /\ search(<<"a">>) = {p}

\* C9: a search whose query has no word (empty, or whitespace only) yields no entry,
\* also when index passes a whitespace-only query on to it.
EmptySearchIsEmpty ==
    \A q \in Queries :
        Split(q) = <<>> => (search(q) = {} /\ (q # <<>> => index(q) = {}))

\* C9 witness: a published entry is persisted, and the whitespace-only query is asked
BlankQueryWithPublished ==
    /\ public # {}
    /\ <<" ", " ">> \in Queries
    /\ index(<<" ", " ">>) = {}

\* the maximal runs of word characters of s, in order
RECURSIVE WordRuns(_)
WordRuns(s) ==
    IF s = <<>> THEN <<>>
    ELSE IF ~IsWord(s[Len(s)]) THEN WordRuns(SubSeq(s, 1, Len(s) - 1))
    ELSE LET init == SubSeq(s, 1, Len(s) - 1)
             runs == WordRuns(init)
         IN IF init # <<>> /\ IsWord(init[Len(init)])
            THEN [runs EXCEPT ![Len(runs)] = @ \o <<s[Len(s)]>>]
            ELSE runs \o <<(<<s[Len(s)]>>)>>

\* the runs joined by single hyphens
RECURSIVE JoinHyphen(_)
JoinHyphen(runs) ==
    IF runs = <<>> THEN <<>>
    ELSE IF Len(runs) = 1 THEN runs[1]
    ELSE runs[1] \o <<"-">> \o JoinHyphen(Tail(runs))

\* C10: the slug of a title is the title's lower-cased runs of word characters joined
\* by single hyphens; it holds lower-case word characters and hyphens only, neither
\* starts nor ends with a hyphen, and is its own slug.
SlugifyContract ==
    t_out # Pending =>
        /\ t_out = JoinHyphen(WordRuns(Lower(t_in)))
        /\ \A i \in 1..Len(t_out) : t_out[i] \in (WordChars \ UpperChars) \cup {"-"}
        /\ t_out # <<>> => (t_out[1] # "-" /\ t_out[Len(t_out)] # "-")
        /\ slugify(t_out) = t_out

\* C10 witness: the slug of a title with an upper-case letter and a run of two
\* non-word characters between its word characters
SlugOfMixedTitle ==
    /\ t_in = <<"A", "!", " ", "h">>
    /\ t_out = <<"a", "-", "h">>

\* the sum of the numbers of the Category rows cs
RECURSIVE SumNumbers(_)
SumNumbers(cs) ==
    IF cs = {} THEN 0
    ELSE LET c == CHOOSE c \in cs : TRUE IN c.number + SumNumbers(cs \ {c})

\* the sum of f over the ids is
RECURSIVE SumOver(_, _)
SumOver(f, is) ==
    IF is = {} THEN 0
    ELSE LET i == CHOOSE i \in is : TRUE IN f[i] + SumOver(f, is \ {i})

\* C11: whatever the interleaving of saves and deletes, the numbers of the categories
\* add up to the increments applied by published saves minus the decrements applied
\* by deletes: no adjustment is lost.
NoLostUpdate ==
    SumNumbers(categories) = incs - SumOver(decs, Ids)

\* C11 witness: one published save and two concurrent deletes of the same entry have
\* all completed, on one category
SaveAndTwoDeletesDone ==
    /\ Quiescent
    /\ incs = 1
    /\ \E i \in Ids : decs[i] = 2
    /\ \E c \in categories : c.number = -1

\* the number of copies of request x in flight in bag b
Copies(x, b) == IF x \in BagToSet(b) THEN b[x] ELSE 0

\* C12: no two Category rows have the same name, and a request whose Category.get
\* found no row goes on to its save also when another request has created the row in
\* between (unless the storage layer itself fails).
CategoryEnsureSafe ==
    /\ [](\A c \in categories, d \in categories : c.name = d.name => c = d)
    /\ [][\A x \in InFlight :
            (/\ x.pc = "cat_create"
             /\ NameTaken(x.e.category)
             /\ Copies(x, req') < Copies(x, req)
             /\ resp'.status # "failed")
                => Copies(At(x.op, "save", x.e), req') > Copies(At(x.op, "save", x.e), req)]_vars

\* request x is no longer at its statement after the step
Leaves(x) == Copies(x, req') < Copies(x, req)

\* the step answers a request
Answered ==
    \/ ops' = ops + 1 /\ req' = req
    \/ BagCardinality(req') < BagCardinality(req)

\* C13: a Category row that exists is there, under the same name, after every step
\* (no save and no delete removes it, also when its number comes back to 0), and a
\* row that appears is the row of the category of a request being served and has the
\* number 0.
CategoryPersists ==
    [][/\ \A c \in categories : \E d \in categories' : d.name = c.name
       /\ \A d \in categories' :
            (\A c \in categories : c.name # d.name)
                => /\ d.number = 0
                   /\ \E x \in InFlight : x.e.category = d.name /\ Leaves(x)]_vars

\* C13 witness: the only entry, saved published, has been deleted, and the row of its
\* category is still there, back at 0
CategoryBackAtZero ==
    /\ Quiescent
    /\ entries = {}
    /\ incs = 1
    /\ SumOver(decs, Ids) = 1
    /\ \E c \in categories : c.number = 0

\* C14: a form without title, content or category is answered with the validation
\* error and goes no further: no request with such a form is at Category.create or at
\* the save, no such entry and no Category of the empty name is stored, and the step
\* that answers with the validation error changes no entry and no Category.
InvalidFormNoEffect ==
    /\ [](\A x \in InFlight :
            x.pc \in {"cat_create", "save"}
                => x.e.title # <<>> /\ x.e.content # <<>> /\ x.e.category # "")
    /\ [](\A e \in entries : e.title # <<>> /\ e.content # <<>> /\ e.category # "")
    /\ [](\A c \in categories : c.name # "")
    /\ [][(Answered /\ resp'.status = "invalid")
            => entries' = entries /\ categories' = categories]_vars

\* C14 witness: an edit of a stored entry has been answered with the validation error
InvalidEditAnswered ==
    /\ Quiescent
    /\ resp.status = "invalid"
    /\ entries # {}
    /\ ops = 2

\* C15: while the session is not logged in, detail finds no draft by its slug; while
\* it is logged in, detail finds every entry, draft or published, by its slug.
DetailGatesDrafts ==
    /\ ~logged_in => \A e \in entries : ~e.published => detail(e.slug) = {}
    /\ logged_in => \A e \in entries : e.slug \in SlugInputs => e \in detail(e.slug)

\* C15 witness: after logout, a draft is stored under a slug that can be requested
DraftStoredLoggedOut ==
    /\ ~logged_in
    /\ \E e \in entries : ~e.published /\ e.slug \in SlugInputs

\* C16: the step in which a save succeeds adds exactly 1 to the number of the saved
\* entry's category when the entry is published, whatever it was before, and changes
\* no other Category; when the entry is a draft it changes no Category.
SaveCountsPublished ==
    [][\A x \in InFlight :
        (x.pc = "save" /\ Leaves(x) /\ resp'.status = "saved")
            => IF x.e.published
               THEN /\ ByName(x.e.category) # {}
                    /\ categories' = {IF c.name = x.e.category
                                      THEN [name |-> c.name, number |-> c.number + 1]
                                      ELSE c : c \in categories}
               ELSE categories' = categories]_vars

\* C16 witness: three requests, one entry, no delete: its category stands at 2 after
\* two published saves
ResavedPublishedTwice ==
    /\ Quiescent
    /\ ops = 3
    /\ nextId = 2
    /\ Cardinality(entries) = 1
    /\ incs = 2
    /\ SumOver(decs, Ids) = 0
    /\ \E c \in categories : c.number = 2

\* C17: the decrement step of a delete takes exactly 1 from the number of the category
\* of the entry it loaded, published or draft, and changes no other Category and no
\* entry; its removal step removes the row of that entry only and changes no
\* Category; and the removal comes after the decrement.
DeleteDecrementsThenRemoves ==
    /\ [](\A x \in InFlight : (x.op = "delete" /\ x.pc = "remove") => decs[x.e.id] >= 1)
    /\ [](\A i \in Ids : dels[i] >= 1 => decs[i] >= 1)
    /\ [][\A x \in InFlight :
            (x.op = "delete" /\ Leaves(x) /\ resp'.status # "failed")
                => IF x.pc = "decrement"
                   THEN /\ ByName(x.e.category) # {}
                        /\ categories' = {IF c.name = x.e.category
                                          THEN [name |-> c.name, number |-> c.number - 1]
                                          ELSE c : c \in categories}
                        /\ entries' = entries
                   ELSE /\ entries' = entries \ {e \in entries : e.id = x.e.id}
                        /\ categories' = categories]_vars

\* C17 witness: a draft, the only entry ever saved, has been deleted and its category
\* stands at -1
DraftDeleted ==
    /\ Quiescent
    /\ resp.status = "deleted"
    /\ entries = {}
    /\ incs = 0
    /\ \E i \in Ids : dels[i] = 1
    /\ \E c \in categories : c.number = -1

\* C18: when no request is in flight, an entry for which a delete has applied its
\* decrement is no longer stored: no delete leaves its decrement behind without the
\* removal, also when its removal fails.
DeleteIsAllOrNothing ==
    Quiescent => \A i \in Ids : decs[i] >= 1 => \A e \in entries : e.id # i

\* C19: every stored entry, and every entry a request is about to save or to take off
\* the count of its category, has a Category row of its category's name.
EntryCategoryExists ==
    /\ \A e \in entries : ByName(e.category) # {}
    /\ \A x \in InFlight : x.pc \in {"save", "decrement"} => ByName(x.e.category) # {}

\* C19 witness: an edit that moves a stored entry to a category that had no row is at
\* its save
EditIntoNewCategory ==
    \E e \in entries, x \in InFlight :
        /\ x.op = "edit"
        /\ x.pc = "save"
        /\ x.e.id = e.id
        /\ x.e.category # e.category
        /\ Cardinality(categories) = 2

\* C20: only the admin's user name with the admin's password authenticates; a request
\* is taken into service only while the session is logged in; a request received
\* while it is not is redirected to login and changes no entry and no Category; the
\* entries and categories change only in steps of requests in service; and logging in
\* changes none of them.
OnlyLoggedInChanges ==
    /\ [](\A u \in Users, p \in Passwords :
            Authenticates(u, p) => (u = "admin" /\ p = "secret"))
    /\ [][/\ BagCardinality(req') > BagCardinality(req) => logged_in
          /\ (~logged_in /\ ops' # ops)
                => /\ resp'.status = "login_redirect"
                   /\ req' = req
                   /\ entries' = entries
                   /\ categories' = categories
          /\ (entries' # entries \/ categories' # categories)
                => \E x \in InFlight : Leaves(x)
          /\ logged_in' # logged_in
                => entries' = entries /\ categories' = categories /\ req' = req]_vars

\* C20 witness: after logout, beside stored entries, a request has been redirected to
\* login
RedirectedBesideEntries ==
    /\ ~logged_in
    /\ resp.status = "login_redirect"
    /\ entries # {}
    /\ Quiescent

====
